---- MODULE Spec2Model ----
(***************************************************************************)
(* Model of the risk-and-loss-prevention pipeline:                        *)
(*   kpis.load_daily_fact -> kpis.compute_kpis -> rules.classify_sites,   *)
(* driven by main.main (console) and by app.main (dashboard, which runs   *)
(* the same pipeline again on a filtered subset of the loaded rows).      *)
(*                                                                         *)
(* Numbers.  A float is modelled as an exact rational <<n, d>>.  A zero   *)
(* denominator is what pandas' division yields on a zero divisor (NaN for *)
(* 0/0, inf otherwise).  round(k) is round-half-to-even on the exact      *)
(* value and leaves a value with denominator 10^k, so every comparison    *)
(* the rules make on rounded columns is exact in the model.  Money is in  *)
(* thousandths of a currency unit in the input file (unit_cost), so that  *)
(* rounding to 2 decimals has something to round.                          *)
(*                                                                         *)
(* Identifiers.  site_id values are integers ordered as the ids sort;     *)
(* dates are day numbers, 0 standing for an empty date cell (NaT); loss   *)
(* reasons are strings ordered by ReasonOrder (their alphabetical order), *)
(* NullReason standing for an empty loss_reason cell (NaN).               *)
(*                                                                         *)
(* Sorting.  sort_values is modelled as a stable sort; groupby returns its *)
(* groups in ascending key order and drops the rows whose key is empty.   *)
(*                                                                         *)
(* Not modelled: the `overall` table, planned_units/plan_variance_units   *)
(* and the avg_* columns (no rule reads them), non-numeric cells, a       *)
(* missing data file, and classify_sites' guard on by_site's columns      *)
(* (compute_kpis always supplies them).                                    *)
(***************************************************************************)
EXTENDS Integers, Sequences, FiniteSets, TLC

VARIABLES pc, file, cfg, df, err, kpi, site_status, view

vars == <<pc, file, cfg, df, err, kpi, site_status, view>>

----------------------------------------------------------------------------
(* Bounds of the model                                                     *)

MaxRows == 3

MaxDays == 5

MaxLoadRows == 2

MaxAppDays == 3

----------------------------------------------------------------------------
(* Generic helpers                                                         *)

Min(S) == CHOOSE x \in S : \A y \in S : x <= y

Max(S) == CHOOSE x \in S : \A y \in S : x >= y

Range(s) == {s[i] : i \in 1..Len(s)}

RECURSIVE SumSeq(_)
SumSeq(s) == IF s = <<>> THEN 0 ELSE s[1] + SumSeq(Tail(s))

RECURSIVE Flatten(_)
Flatten(ss) == IF ss = <<>> THEN <<>> ELSE ss[1] \o Flatten(Tail(ss))

\* The ascending sequence of a finite set of integers.
RECURSIVE Ascending(_)
Ascending(S) == IF S = {} THEN <<>> ELSE <<Min(S)>> \o Ascending(S \ {Min(S)})

----------------------------------------------------------------------------
(* Floats as exact rationals                                               *)

Rat(n, d) == <<n, d>>

IsNaN(q) == q[2] = 0

Zero == Rat(0, 1)

\* q with a positive denominator (q is not NaN).
Pos(q) == IF q[2] < 0 THEN Rat(-q[1], -q[2]) ELSE q

RatLt(a, b) ==
    /\ ~IsNaN(a)
    /\ ~IsNaN(b)
    /\ Pos(a)[1] * Pos(b)[2] < Pos(b)[1] * Pos(a)[2]

RatGt(a, b) == RatLt(b, a)

RatGe(a, b) ==
    /\ ~IsNaN(a)
    /\ ~IsNaN(b)
    /\ Pos(a)[1] * Pos(b)[2] >= Pos(b)[1] * Pos(a)[2]

\* n/d rounded to the nearest integer, halves to the even one (d > 0).
RoundHalfEven(n, d) ==
    LET q == n \div d
        r == n - q * d
    IN  IF 2 * r < d THEN q
        ELSE IF 2 * r > d THEN q + 1
        ELSE IF q % 2 = 0 THEN q ELSE q + 1

\* round(q, k) with scale = 10^k; NaN and inf round to themselves.
RoundTo(q, scale) ==
    IF IsNaN(q) THEN q
    ELSE Rat(RoundHalfEven(Pos(q)[1] * scale, Pos(q)[2]), scale)

Round4(q) == RoundTo(q, 10000)

Round2(q) == RoundTo(q, 100)

\* pandas' integer division column / column: a zero divisor gives NaN or inf.
PdDiv(n, d) == Rat(n, d)

\* Series.where(cond, other): keep the value where cond holds.
Where(q, cond, other) == IF cond THEN q ELSE other

----------------------------------------------------------------------------
(* RuleConfig and ACTION_MAP                                               *)

DefaultConfig ==
    [normal_max_loss       |-> Rat(5, 100),
     watch_max_loss        |-> Rat(10, 100),
     sustained_watch_loss  |-> Rat(8, 100),
     sustained_days        |-> 5,
     dominant_driver_share |-> Rat(60, 100),
     trend_days            |-> 3]

NullReason == "<NaN>"

\* The loss reasons of the model, in the order their names sort.
ReasonOrder == <<"damage", "spoilage", "theft">>

ReasonRank(r) == CHOOSE i \in 1..Len(ReasonOrder) : ReasonOrder[i] = r

ACTION_MAP ==
    [overproduction  |->
        "Adjust ordering cadence / tighten plan vs actual variance; review reorder points.",
     spoilage        |->
        "Strengthen process controls (handling/storage); investigate temperature excursions and SOP adherence.",
     damage          |->
        "Improve handling/packaging; target training and standard work to reduce breakage.",
     timing_mismatch |->
        "Fix scheduling + staffing alignment; coordinate inbound timing and process capacity."]

InsufficientAction == "Review site performance; insufficient driver data."

DefineAction == "Review site performance; define corrective action."

\* The status labels in the order the strings sort.
StatusLabelOrder == <<"Intervention Required", "Normal", "Watch">>

StatusLabelRank(s) == CHOOSE i \in 1..3 : StatusLabelOrder[i] = s

----------------------------------------------------------------------------
(* kpis.load_daily_fact                                                    *)

REQUIRED_COLS ==
    {"date", "site_id", "planned_units", "actual_units", "usable_units",
     "disposed_units", "unit_cost", "loss_reason", "staffing_shortfall_flag",
     "supplier_delay_flag", "temp_excursion_flag"}

\* A numeric cell of the file holds its value in halves: Cell(n) is the
\* integer n, and an odd number of halves is a fractional count.
Cell(n) == 2 * n

\* to_numeric(...).astype(int): truncation toward zero.
AsInt(c) == IF c >= 0 THEN c \div 2 ELSE -((-c) \div 2)

Coerce(row) ==
    [row EXCEPT !.actual_units = AsInt(@),
                !.usable_units = AsInt(@),
                !.disposed_units = AsInt(@),
                !.staffing_shortfall_flag = AsInt(@),
                !.supplier_delay_flag = AsInt(@),
                !.temp_excursion_flag = AsInt(@)]

\* The integrity check's `bad` mask, on a coerced row.
Unbalanced(r) == r.usable_units + r.disposed_units # r.actual_units

NoError == [kind |-> "none", n |-> 0, missing |-> {}]

\* LoadResult dropping the unbalanced rows instead of failing.
LoadResultDropBad(f) ==
    LET missing == REQUIRED_COLS \ f.columns
        t       == [i \in 1..Len(f.rows) |-> Coerce(f.rows[i])]
    IN  IF missing # {}
        THEN [ok |-> FALSE, df |-> <<>>,
              err |-> [kind |-> "Missing", n |-> 0, missing |-> missing]]
        ELSE [ok |-> TRUE, df |-> SelectSeq(t, LAMBDA r : ~Unbalanced(r)),
              err |-> NoError]

\* The outcome of load_daily_fact on file f: the table returned or the error.
LoadResult(f) ==
    LET missing == REQUIRED_COLS \ f.columns
        t       == [i \in 1..Len(f.rows) |-> Coerce(f.rows[i])]
        n       == Cardinality({i \in 1..Len(t) : Unbalanced(t[i])})
    IN  IF missing # {}
        THEN [ok |-> FALSE, df |-> <<>>,
              err |-> [kind |-> "Missing", n |-> 0, missing |-> missing]]
        ELSE IF n > 0
        THEN [ok |-> FALSE, df |-> <<>>,
              err |-> [kind |-> "Integrity", n |-> n, missing |-> {}]]
        ELSE [ok |-> TRUE, df |-> t, err |-> NoError]

----------------------------------------------------------------------------
(* Sorting                                                                 *)

\* The strict orders the code sorts by.
Before(order, a, b) ==
    CASE order = "cost_desc" ->
            RatGt(a.cost_leakage, b.cost_leakage)
      [] order = "site_date" ->
            \/ a.site_id < b.site_id
            \/ a.site_id = b.site_id /\ a.date < b.date
      [] order = "date" ->
            a.date < b.date
      [] order = "site_share_desc" ->
            \/ a.site_id < b.site_id
            \/ /\ a.site_id = b.site_id
               /\ RatGt(a.disposed_share, b.disposed_share)
      [] order = "status_cost_desc" ->
            \/ StatusLabelRank(a.status) < StatusLabelRank(b.status)
            \/ /\ a.status = b.status
               /\ RatGt(a.cost_leakage, b.cost_leakage)

\* Insert x into the sorted sequence t, after every element it does not
\* strictly precede (so equal keys keep their earlier order).
Insert(t, x, order) ==
    LET idx == {j \in 1..Len(t) : Before(order, x, t[j])}
        p   == IF idx = {} THEN Len(t) + 1 ELSE Min(idx)
    IN  SubSeq(t, 1, p - 1) \o <<x>> \o SubSeq(t, p, Len(t))

\* sort_values: a stable sort of s by the strict order.
RECURSIVE SortValues(_, _)
SortValues(s, order) ==
    IF s = <<>> THEN <<>>
    ELSE Insert(SortValues(SubSeq(s, 1, Len(s) - 1), order), s[Len(s)], order)

----------------------------------------------------------------------------
(* kpis.add_derived_metrics and kpis.compute_kpis                          *)

\* GuardedRatio without its .where guard.
UnguardedRatio(num, den) == PdDiv(num, den)

\* numerator / denominator guarded by .where(denominator > 0, 0.0)
GuardedRatio(num, den) == Where(PdDiv(num, den), den > 0, Zero)

\* A fact row with its derived columns (unit_cost is in thousandths, and so
\* is the numerator of cost_leakage).
DerivedRow(r) ==
    [date |-> r.date, site_id |-> r.site_id, loss_reason |-> r.loss_reason,
     actual_units |-> r.actual_units, usable_units |-> r.usable_units,
     disposed_units |-> r.disposed_units, unit_cost |-> r.unit_cost,
     utilization_rate |-> GuardedRatio(r.usable_units, r.actual_units),
     loss_rate |-> GuardedRatio(r.disposed_units, r.actual_units),
     cost_leakage |-> Rat(r.disposed_units * r.unit_cost, 1000),
     any_shock_flag |->
        IF \/ r.staffing_shortfall_flag = 1
           \/ r.supplier_delay_flag = 1
           \/ r.temp_excursion_flag = 1
        THEN 1 ELSE 0]

AddDerivedMetrics(rows) == [i \in 1..Len(rows) |-> DerivedRow(rows[i])]

\* The sum of an integer column, and of the cost_leakage column, of g.
SumCol(g, col) == SumSeq([i \in 1..Len(g) |-> g[i][col]])

SumCost(g) == Rat(SumSeq([i \in 1..Len(g) |-> g[i].cost_leakage[1]]), 1000)

\* The by_site row of site s: the aggregates, the weighted ratios, rounded.
BySiteRow(d, s) ==
    LET g == SelectSeq(d, LAMBDA r : r.site_id = s)
    IN  [site_id        |-> s,
         actual_units   |-> SumCol(g, "actual_units"),
         usable_units   |-> SumCol(g, "usable_units"),
         disposed_units |-> SumCol(g, "disposed_units"),
         cost_leakage   |-> Round2(SumCost(g)),
         shock_days     |-> SumCol(g, "any_shock_flag"),
         loss_rate_weighted |->
             Round4(GuardedRatio(SumCol(g, "disposed_units"),
                                 SumCol(g, "actual_units"))),
         utilization_rate_weighted |->
             Round4(GuardedRatio(SumCol(g, "usable_units"),
                                 SumCol(g, "actual_units")))]

\* The by_site_day row of site s on a day.
BySiteDayRow(d, day, s) ==
    LET g == SelectSeq(d, LAMBDA r : r.site_id = s /\ r.date = day)
    IN  [date           |-> day,
         site_id        |-> s,
         actual_units   |-> SumCol(g, "actual_units"),
         usable_units   |-> SumCol(g, "usable_units"),
         disposed_units |-> SumCol(g, "disposed_units"),
         cost_leakage   |-> Round2(SumCost(g)),
         any_shock_flag |-> Max({g[i].any_shock_flag : i \in 1..Len(g)}),
         loss_rate |->
             Round4(GuardedRatio(SumCol(g, "disposed_units"),
                                 SumCol(g, "actual_units"))),
         utilization_rate |->
             Round4(GuardedRatio(SumCol(g, "usable_units"),
                                 SumCol(g, "actual_units")))]

\* groupby("site_id"): one row per site, the keys ascending.
BySiteGroups(d) ==
    LET sites == Ascending({r.site_id : r \in Range(d)})
    IN  [k \in 1..Len(sites) |-> BySiteRow(d, sites[k])]

\* groupby(["date", "site_id"]): one row per day and site, the keys
\* ascending; the rows with an empty date are dropped.
BySiteDayGroups(d) ==
    LET days == Ascending({r.date : r \in Range(d)} \ {0})
    IN  Flatten([k \in 1..Len(days) |->
            LET sites == Ascending({r.site_id :
                            r \in {x \in Range(d) : x.date = days[k]}})
            IN  [j \in 1..Len(sites) |-> BySiteDayRow(d, days[k], sites[j])]])

\* groupby(["site_id", "loss_reason"]): the disposed units per site and
\* reason, the keys ascending; the rows with an empty loss_reason are dropped.
MixGroups(d) ==
    LET sites == Ascending({r.site_id : r \in Range(d)})
    IN  Flatten([k \in 1..Len(sites) |->
            LET ranks == Ascending({ReasonRank(r.loss_reason) :
                            r \in {x \in Range(d) : x.site_id = sites[k]
                                        /\ x.loss_reason # NullReason}})
            IN  [j \in 1..Len(ranks) |->
                    [site_id |-> sites[k],
                     loss_reason |-> ReasonOrder[ranks[j]],
                     disposed_units |->
                        SumCol(SelectSeq(d, LAMBDA r :
                                  /\ r.site_id = sites[k]
                                  /\ r.loss_reason = ReasonOrder[ranks[j]]),
                               "disposed_units")]]])

\* TotalDisposed summed over the whole mix instead of the row's site.
TotalDisposedAllSites(mix, m) == SumCol(mix, "disposed_units")

\* total_disposed of the mix row m: the sum over its site's rows of mix.
TotalDisposed(mix, m) ==
    SumCol(SelectSeq(mix, LAMBDA x : x.site_id = m.site_id), "disposed_units")

DisposedShare(mix, m) ==
    Round4(GuardedRatio(m.disposed_units, TotalDisposed(mix, m)))

LossMix(d) ==
    LET mix == MixGroups(d)
    IN  [k \in 1..Len(mix) |->
            [site_id        |-> mix[k].site_id,
             loss_reason    |-> mix[k].loss_reason,
             disposed_units |-> mix[k].disposed_units,
             total_disposed |-> TotalDisposed(mix, mix[k]),
             disposed_share |-> DisposedShare(mix, mix[k])]]

ComputeKpis(rows) ==
    LET d == AddDerivedMetrics(rows)
    IN  [by_site          |-> SortValues(BySiteGroups(d), "cost_desc"),
         by_site_day      |-> SortValues(BySiteDayGroups(d), "site_date"),
         loss_mix_by_site |-> SortValues(LossMix(d), "site_share_desc")]

NoKpi == [by_site |-> <<>>, by_site_day |-> <<>>, loss_mix_by_site |-> <<>>]

----------------------------------------------------------------------------
(* rules.classify_sites                                                    *)

NaN == Rat(0, 0)

\* tail(k) of a sequence.
TailK(d, k) == IF k >= Len(d) THEN d ELSE SubSeq(d, Len(d) - k + 1, Len(d))

\* RisingStreak accepting equal consecutive values.
RisingStreakNonStrict(values, k) ==
    IF Len(values) < k THEN FALSE
    ELSE LET tail == TailK(values, k)
         IN  \A i \in 1..(Len(tail) - 1) : ~RatGt(tail[i], tail[i + 1])

\* _rising_streak(values, k)
RisingStreak(values, k) ==
    IF Len(values) < k THEN FALSE
    ELSE LET tail == TailK(values, k)
         IN  \A i \in 1..(Len(tail) - 1) : RatLt(tail[i], tail[i + 1])

\* SiteDays without the selection of the site's rows.
SiteDaysAllSites(by_site_day, s) == SortValues(by_site_day, "date")

\* by_site_day[by_site_day["site_id"] == site_id].sort_values("date")
SiteDays(by_site_day, s) ==
    SortValues(SelectSeq(by_site_day, LAMBDA r : r.site_id = s), "date")

\* SustainedFlag with a strict comparison against the threshold.
SustainedFlagStrict(by_site_day, s, c) ==
    LET tail == TailK(SiteDays(by_site_day, s), c.sustained_days)
    IN  IF Len(tail) < c.sustained_days THEN FALSE
        ELSE \A i \in 1..Len(tail) :
                RatGt(tail[i].loss_rate, c.sustained_watch_loss)

SustainedFlag(by_site_day, s, c) ==
    LET tail == TailK(SiteDays(by_site_day, s), c.sustained_days)
    IN  IF Len(tail) < c.sustained_days THEN FALSE
        ELSE \A i \in 1..Len(tail) :
                RatGe(tail[i].loss_rate, c.sustained_watch_loss)

RisingCostFlag(by_site_day, s, c) ==
    LET d == SiteDays(by_site_day, s)
    IN  RisingStreak([i \in 1..Len(d) |-> d[i].cost_leakage], c.trend_days)

\* Dominant taking the site's last row of the sort instead of its first.
DominantLast(loss_mix, s) ==
    LET sorted == SortValues(loss_mix, "site_share_desc")
        g      == SelectSeq(sorted, LAMBDA m : m.site_id = s)
    IN  IF g = <<>>
        THEN [dominant_loss_reason |-> NullReason, dominant_loss_share |-> NaN]
        ELSE [dominant_loss_reason |-> g[Len(g)].loss_reason,
              dominant_loss_share  |-> g[Len(g)].disposed_share]

\* The row of `dom` for site s: the first row of the site after the sort by
\* (site_id ascending, disposed_share descending); nulls when it has none.
Dominant(loss_mix, s) ==
    LET sorted == SortValues(loss_mix, "site_share_desc")
        g      == SelectSeq(sorted, LAMBDA m : m.site_id = s)
    IN  IF g = <<>>
        THEN [dominant_loss_reason |-> NullReason, dominant_loss_share |-> NaN]
        ELSE [dominant_loss_reason |-> g[1].loss_reason,
              dominant_loss_share  |-> g[1].disposed_share]

\* StatusOf with watch_max_loss itself counted as exceeding it.
StatusOfInclusive(lr, dom_share, sustained, rising, c) ==
    IF \/ RatGe(lr, c.watch_max_loss)
       \/ sustained
       \/ (RatGe(dom_share, c.dominant_driver_share)
             /\ RatGt(lr, c.normal_max_loss))
    THEN "Intervention Required"
    ELSE IF RatGt(lr, c.normal_max_loss) \/ rising
    THEN "Watch"
    ELSE "Normal"

\* The status logic of one row.
StatusOf(lr, dom_share, sustained, rising, c) ==
    IF \/ RatGt(lr, c.watch_max_loss)
       \/ sustained
       \/ (RatGe(dom_share, c.dominant_driver_share)
             /\ RatGt(lr, c.normal_max_loss))
    THEN "Intervention Required"
    ELSE IF RatGt(lr, c.normal_max_loss) \/ rising
    THEN "Watch"
    ELSE "Normal"

Recommend(reason) ==
    IF reason = NullReason THEN InsufficientAction
    ELSE IF reason \in DOMAIN ACTION_MAP THEN ACTION_MAP[reason]
    ELSE DefineAction

BoolInt(b) == IF b THEN 1 ELSE 0

\* fillna(0.0)
FillNa(q) == IF IsNaN(q) THEN Zero ELSE q

StatusRow(r, by_site_day, loss_mix, c) ==
    LET dom       == Dominant(loss_mix, r.site_id)
        sustained == BoolInt(SustainedFlag(by_site_day, r.site_id, c))
        rising    == BoolInt(RisingCostFlag(by_site_day, r.site_id, c))
        dom_share == FillNa(dom.dominant_loss_share)
    IN  [site_id                  |-> r.site_id,
         status                   |-> StatusOf(r.loss_rate_weighted, dom_share,
                                               sustained = 1, rising = 1, c),
         loss_rate_weighted       |-> Round4(r.loss_rate_weighted),
         cost_leakage             |-> Round2(r.cost_leakage),
         shock_days               |-> r.shock_days,
         dominant_loss_reason     |-> dom.dominant_loss_reason,
         dominant_loss_share      |-> Round4(dom_share),
         sustained_high_loss_flag |-> sustained,
         rising_cost_leakage_flag |-> rising,
         recommended_action       |-> Recommend(dom.dominant_loss_reason)]

\* The table sorted by ["status", "cost_leakage"], ascending=[True, False];
\* the status column holds strings, so it sorts as text.
ClassifySitesTable(by_site, by_site_day, loss_mix, c) ==
    SortValues([k \in 1..Len(by_site) |->
                    StatusRow(by_site[k], by_site_day, loss_mix, c)],
               "status_cost_desc")

----------------------------------------------------------------------------
(* app.main: the dashboard's filtered view                                 *)

\* df[site_id.isin(selected) & (date >= start) & (date <= end)]; a row with
\* an empty date compares false.
Filtered(rows, selected, start, end) ==
    SelectSeq(rows, LAMBDA r : /\ r.site_id \in selected
                               /\ r.date # 0
                               /\ r.date >= start
                               /\ r.date <= end)

NoView == [ran |-> FALSE, selected |-> {}, start |-> 0, end |-> 0,
           dff |-> <<>>, kpi_f |-> NoKpi, status_f |-> <<>>]

----------------------------------------------------------------------------
(* Inputs: the files and the rule configurations the model draws from      *)

\* A balanced fact row with integer counts.
FactRow(site, day, usable, disposed, cost, reason, shock) ==
    [date |-> day, site_id |-> site,
     actual_units |-> Cell(usable + disposed),
     usable_units |-> Cell(usable), disposed_units |-> Cell(disposed),
     unit_cost |-> cost, loss_reason |-> reason,
     staffing_shortfall_flag |-> Cell(shock),
     supplier_delay_flag |-> Cell(0), temp_excursion_flag |-> Cell(0)]

SeqsUpTo(D, n) == UNION {[1..k -> D] : k \in 0..n}

\* A configuration with short windows, whose thresholds the rows below hit
\* exactly.
ShortConfig ==
    [normal_max_loss       |-> Rat(8, 100),
     watch_max_loss        |-> Rat(25, 100),
     sustained_watch_loss  |-> Rat(10, 100),
     sustained_days        |-> 2,
     dominant_driver_share |-> Rat(50, 100),
     trend_days            |-> 2]

Configs == {DefaultConfig, ShortConfig}

\* Rows on one day: site 1 with no activity, a 10% and a 50% loss rate under
\* every kind of loss reason, and three rows of site 2, one of them undated.
MainRows ==
    {FactRow(1, 1, u[1], u[2], 1000, r, 0) :
        u \in {<<0, 0>>, <<9, 1>>, <<1, 1>>},
        r \in {NullReason, "damage", "spoilage", "theft"}}
    \cup {FactRow(2, 1, 0, 0, 1000, "damage", 1),
          FactRow(2, 1, 9, 1, 3000, "damage", 0),
          FactRow(2, 0, 19, 1, 1000, "spoilage", 0)}

MainFiles == [columns : {REQUIRED_COLS}, rows : SeqsUpTo(MainRows, MaxRows)]

\* What a day of a daily history adds to the file.
DayProfiles == {"high", "edge", "creep", "low", "other"}

DayRows(p, d) ==
    CASE p = "high"  -> <<FactRow(1, d, 9, 1, 1000 * d, "damage", 0)>>
      [] p = "edge"  -> <<FactRow(1, d, 23, 2, 1000, "spoilage", 1)>>
      [] p = "creep" -> <<FactRow(1, d, 19, 1, 1000 + d, NullReason, 0)>>
      [] p = "low"   -> <<FactRow(1, d, 19, 1, 1000 * d, NullReason, 0)>>
      [] p = "other" -> <<FactRow(2, d, 9, 1, 1000, "theft", 0)>>

\* Daily histories: one profile per day, for up to MaxDays days.
HistoryFiles ==
    {[columns |-> REQUIRED_COLS,
      rows |-> Flatten([d \in 1..Len(plan) |-> DayRows(plan[d], d)])] :
        plan \in SeqsUpTo(DayProfiles, MaxDays)}

\* Files for the loader: headers with and without every required column,
\* and rows whose counts are whole or fractional, balanced or not.
LoadHeaders ==
    {REQUIRED_COLS, REQUIRED_COLS \ {"unit_cost"},
     REQUIRED_COLS \ {"date", "loss_reason"}}

LoadRows ==
    {[date |-> 1, site_id |-> 1, actual_units |-> a, usable_units |-> u,
      disposed_units |-> d, unit_cost |-> 1000, loss_reason |-> "damage",
      staffing_shortfall_flag |-> Cell(0), supplier_delay_flag |-> Cell(0),
      temp_excursion_flag |-> Cell(0)] :
        a \in {Cell(0), Cell(1), Cell(2)},
        u \in {Cell(1), 3},
        d \in {Cell(0), Cell(1), 3, -3}}

LoadFiles == [columns : LoadHeaders, rows : SeqsUpTo(LoadRows, MaxLoadRows)]

\* What a day adds to the dashboard's file: rows of one or of both sites.
AppProfiles == {"none", "high", "low", "other", "both", "nat"}

AppDayRows(p, d) ==
    CASE p = "none"  -> <<>>
      [] p = "high"  -> <<FactRow(1, d, 9, 1, 1000 * d, "damage", 0)>>
      [] p = "low"   -> <<FactRow(1, d, 19, 1, 1000 * d, NullReason, 0)>>
      [] p = "other" -> <<FactRow(2, d, 9, 1, 1000, "theft", 1)>>
      [] p = "both"  -> <<FactRow(1, d, 9, 1, 1000 * d, "damage", 0),
                          FactRow(2, d, 1, 1, 2000, "damage", 0)>>
      [] p = "nat"   -> <<FactRow(1, 0, 9, 1, 1000, "spoilage", 0)>>

AppFiles ==
    {[columns |-> REQUIRED_COLS,
      rows |-> Flatten([d \in 1..Len(plan) |-> AppDayRows(plan[d], d)])] :
        plan \in SeqsUpTo(AppProfiles, MaxAppDays)}

----------------------------------------------------------------------------
(* main.main: load, compute, classify                                      *)

Blank ==
    /\ pc = "start"
    /\ cfg = DefaultConfig
    /\ df = <<>>
    /\ err = NoError
    /\ kpi = NoKpi
    /\ site_status = <<>>
    /\ view = NoView

Init ==
    /\ file \in MainFiles \cup HistoryFiles
    /\ Blank

LoadDailyFact ==
    /\ pc = "start"
    /\ LET res == LoadResult(file)
       IN  /\ pc' = IF res.ok THEN "loaded" ELSE "failed"
           /\ df' = res.df
           /\ err' = res.err
    /\ UNCHANGED <<file, cfg, kpi, site_status, view>>

ComputeKpisStep ==
    /\ pc = "loaded"
    /\ kpi' = ComputeKpis(df)
    /\ pc' = "kpis"
    /\ UNCHANGED <<file, cfg, df, err, site_status, view>>

ClassifySites ==
    /\ pc = "kpis"
    /\ \E c \in Configs :
        /\ cfg' = c
        /\ site_status' = ClassifySitesTable(kpi.by_site, kpi.by_site_day,
                                             kpi.loss_mix_by_site, c)
    /\ pc' = "done"
    /\ UNCHANGED <<file, df, err, kpi, view>>

Next == LoadDailyFact \/ ComputeKpisStep \/ ClassifySites

Spec == Init /\ [][Next]_vars

\* The console run on the loader's files.
InitLoad ==
    /\ file \in LoadFiles
    /\ Blank

SpecLoad == InitLoad /\ [][Next]_vars

----------------------------------------------------------------------------
(* app.main: load_and_compute, then the filtered recomputation              *)

InitApp ==
    /\ file \in AppFiles
    /\ Blank

\* The sidebar's widgets: the sites to choose from, the bounds of the dates.
SiteIds(rows) == {rows[i].site_id : i \in 1..Len(rows)}

Dated(rows) == {rows[i].date : i \in 1..Len(rows)} \ {0}

FiltersOf(selected, start, end) ==
    [ran |-> FALSE, selected |-> selected, start |-> start, end |-> end,
     dff |-> <<>>, kpi_f |-> NoKpi, status_f |-> <<>>]

\* load_and_compute: the three stages with the default RuleConfig; the
\* widgets start at every site and the whole range of dates.
LoadAndCompute ==
    /\ pc = "start"
    /\ LET res == LoadResult(file)
           k   == ComputeKpis(res.df)
       IN  /\ pc' = IF res.ok THEN "ready" ELSE "failed"
           /\ df' = res.df
           /\ err' = res.err
           /\ kpi' = IF res.ok THEN k ELSE NoKpi
           /\ site_status' =
                IF res.ok
                THEN ClassifySitesTable(k.by_site, k.by_site_day,
                                        k.loss_mix_by_site, DefaultConfig)
                ELSE <<>>
           /\ view' =
                IF res.ok /\ Dated(res.df) # {}
                THEN FiltersOf(SiteIds(res.df), Min(Dated(res.df)),
                               Max(Dated(res.df)))
                ELSE NoView
    /\ UNCHANGED <<file, cfg>>

\* The user changes the selected sites or the date range.
SetFilters ==
    /\ pc = "ready"
    /\ Dated(df) # {}
    /\ \E selected \in SUBSET SiteIds(df),
          start \in Min(Dated(df))..Max(Dated(df)),
          end \in Min(Dated(df))..Max(Dated(df)) :
        /\ start <= end
        /\ view' = FiltersOf(selected, start, end)
    /\ UNCHANGED <<pc, file, cfg, df, err, kpi, site_status>>

\* The script's run on the widgets' values: filter, recompute, reclassify.
Rerun ==
    /\ pc = "ready"
    /\ Dated(df) # {}
    /\ LET dff == Filtered(df, view.selected, view.start, view.end)
           k   == ComputeKpis(dff)
       IN  view' = [view EXCEPT
                !.ran = TRUE, !.dff = dff, !.kpi_f = k,
                !.status_f = ClassifySitesTable(k.by_site, k.by_site_day,
                                 k.loss_mix_by_site, DefaultConfig)]
    /\ UNCHANGED <<pc, file, cfg, df, err, kpi, site_status>>

NextApp == LoadAndCompute \/ SetFilters \/ Rerun

SpecApp == InitApp /\ [][NextApp]_vars

----------------------------------------------------------------------------
(* Properties                                                              *)

\* q > t and q >= t on two rationals with positive denominators.
Exceeds(q, t) == q[1] * t[2] > t[1] * q[2]

AtLeast(q, t) == q[1] * t[2] >= t[1] * q[2]

Classified == pc = "done"

Computed == pc \in {"kpis", "done"}

StatusRows == Range(site_status)

BySiteOf(s) == CHOOSE r \in Range(kpi.by_site) : r.site_id = s

DaysOf(s) == {r \in Range(kpi.by_site_day) : r.site_id = s}

MixIndexOf(s) ==
    {k \in 1..Len(kpi.loss_mix_by_site) : kpi.loss_mix_by_site[k].site_id = s}

\* The n most recent daily rows of a site.
Recent(s, n) ==
    {r \in DaysOf(s) : Cardinality({x \in DaysOf(s) : x.date > r.date}) < n}

\* C1: every site's status is the first match of the decision table on
\* its by_site loss rate, its two flags and its dominant share (0.0 when
\* the site has no loss-mix row), a rate equal to a threshold not exceeding it.
C1_DecisionTable ==
    Classified =>
        \A row \in StatusRows :
            LET lr    == BySiteOf(row.site_id).loss_rate_weighted
                share == IF MixIndexOf(row.site_id) = {} THEN Rat(0, 1)
                         ELSE row.dominant_loss_share
                intervene ==
                    \/ Exceeds(lr, cfg.watch_max_loss)
                    \/ row.sustained_high_loss_flag = 1
                    \/ /\ AtLeast(share, cfg.dominant_driver_share)
                       /\ Exceeds(lr, cfg.normal_max_loss)
                watch ==
                    \/ Exceeds(lr, cfg.normal_max_loss)
                    \/ row.rising_cost_leakage_flag = 1
            IN  /\ intervene => row.status = "Intervention Required"
                /\ ~intervene /\ watch => row.status = "Watch"
                /\ ~intervene /\ ~watch => row.status = "Normal"

\* A site whose loss rate equals watch_max_loss exactly and is only Watch.
C1_Witness ==
    /\ Classified
    /\ \E row \in StatusRows :
        /\ row.status = "Watch"
        /\ row.rising_cost_leakage_flag = 0
        /\ ~Exceeds(BySiteOf(row.site_id).loss_rate_weighted, cfg.watch_max_loss)
        /\ AtLeast(BySiteOf(row.site_id).loss_rate_weighted, cfg.watch_max_loss)

SeverityRank(st) ==
    CASE st = "Normal" -> 1
      [] st = "Watch" -> 2
      [] st = "Intervention Required" -> 3

\* C2: the status table is ordered by ascending severity (Normal, Watch,
\* Intervention Required) and, within a status, by descending cost_leakage.
C2_SeverityOrder ==
    Classified =>
        \A i, j \in 1..Len(site_status) :
            i < j =>
                \/ SeverityRank(site_status[i].status)
                      < SeverityRank(site_status[j].status)
                \/ /\ site_status[i].status = site_status[j].status
                   /\ AtLeast(site_status[i].cost_leakage,
                              site_status[j].cost_leakage)

\* The exact values of claim C3, computed from the loaded fact rows.
RECURSIVE SumFacts(_, _)
SumFacts(I, col) ==
    IF I = {} THEN 0
    ELSE LET i == Min(I) IN df[i][col] + SumFacts(I \ {i}, col)

RECURSIVE SumFactCost(_)
SumFactCost(I) ==
    IF I = {} THEN 0
    ELSE LET i == Min(I)
         IN  df[i].disposed_units * df[i].unit_cost + SumFactCost(I \ {i})

ExactRatio(num, den) == IF den > 0 THEN Rat(num, den) ELSE Rat(0, 1)

FactsOf(s) == {i \in 1..Len(df) : df[i].site_id = s}

FactsOn(s, day) == {i \in FactsOf(s) : df[i].date = day}

FactsFor(s, reason) == {i \in FactsOf(s) : df[i].loss_reason = reason}

ExactLossRate(I) ==
    ExactRatio(SumFacts(I, "disposed_units"), SumFacts(I, "actual_units"))

ExactDates(s) == {df[i].date : i \in FactsOf(s)} \ {0}

ExactRecent(s, n) ==
    {d \in ExactDates(s) : Cardinality({x \in ExactDates(s) : x > d}) < n}

ExactSustained(s) ==
    /\ Cardinality(ExactDates(s)) >= cfg.sustained_days
    /\ \A d \in ExactRecent(s, cfg.sustained_days) :
          AtLeast(ExactLossRate(FactsOn(s, d)), cfg.sustained_watch_loss)

ExactRising(s) ==
    /\ Cardinality(ExactDates(s)) >= cfg.trend_days
    /\ \A a, b \in ExactRecent(s, cfg.trend_days) :
          a < b => SumFactCost(FactsOn(s, a)) < SumFactCost(FactsOn(s, b))

ExactReasons(s) == {df[i].loss_reason : i \in FactsOf(s)} \ {NullReason}

ExactShare(s, reason) ==
    ExactRatio(SumFacts(FactsFor(s, reason), "disposed_units"),
               SumFacts({i \in FactsOf(s) : df[i].loss_reason # NullReason},
                        "disposed_units"))

ExactDominantShare(s) ==
    IF ExactReasons(s) = {} THEN Rat(0, 1)
    ELSE LET shares == {ExactShare(s, r) : r \in ExactReasons(s)}
         IN  CHOOSE q \in shares : \A o \in shares : AtLeast(q, o)

ExactStatusOf(s) ==
    LET lr == ExactLossRate(FactsOf(s))
    IN  IF \/ Exceeds(lr, cfg.watch_max_loss)
           \/ ExactSustained(s)
           \/ /\ AtLeast(ExactDominantShare(s), cfg.dominant_driver_share)
              /\ Exceeds(lr, cfg.normal_max_loss)
        THEN "Intervention Required"
        ELSE IF Exceeds(lr, cfg.normal_max_loss) \/ ExactRising(s)
        THEN "Watch"
        ELSE "Normal"

\* C3: rounding is cosmetic: every site gets the status and the flags that
\* the decision table gives on the exact, unrounded values.
C3_RoundingCosmetic ==
    Classified =>
        \A row \in StatusRows :
            /\ row.status = ExactStatusOf(row.site_id)
            /\ (row.sustained_high_loss_flag = 1) <=> ExactSustained(row.site_id)
            /\ (row.rising_cost_leakage_flag = 1) <=> ExactRising(row.site_id)

\* C4: sustained_high_loss_flag is set exactly when the site has at least
\* sustained_days daily rows and each of its sustained_days most recent ones
\* has loss_rate >= sustained_watch_loss.
C4_SustainedFlag ==
    Classified =>
        \A row \in StatusRows :
            (row.sustained_high_loss_flag = 1) <=>
                /\ Cardinality(DaysOf(row.site_id)) >= cfg.sustained_days
                /\ \A r \in Recent(row.site_id, cfg.sustained_days) :
                      AtLeast(r.loss_rate, cfg.sustained_watch_loss)

\* Exactly sustained_days = 5 rows, each exactly at the threshold: flag set.
C4_Witness ==
    /\ Classified
    /\ cfg = DefaultConfig
    /\ \E row \in StatusRows :
        /\ row.sustained_high_loss_flag = 1
        /\ Cardinality(DaysOf(row.site_id)) = cfg.sustained_days
        /\ \A r \in DaysOf(row.site_id) :
              /\ AtLeast(r.loss_rate, cfg.sustained_watch_loss)
              /\ ~Exceeds(r.loss_rate, cfg.sustained_watch_loss)

\* C5: rising_cost_leakage_flag is set exactly when the site has at least
\* trend_days daily rows and the cost_leakage of its trend_days most recent
\* ones strictly increases with the date.
C5_RisingFlag ==
    Classified =>
        \A row \in StatusRows :
            (row.rising_cost_leakage_flag = 1) <=>
                /\ Cardinality(DaysOf(row.site_id)) >= cfg.trend_days
                /\ \A a, b \in Recent(row.site_id, cfg.trend_days) :
                      a.date < b.date =>
                          Exceeds(b.cost_leakage, a.cost_leakage)

\* A site with more days than the window whose last trend_days = 3 days
\* rise, after an earlier day that did not.
C5_Witness ==
    /\ Classified
    /\ cfg = DefaultConfig
    /\ \E row \in StatusRows :
        /\ row.rising_cost_leakage_flag = 1
        /\ Cardinality(DaysOf(row.site_id)) > cfg.trend_days
        /\ \E a, b \in DaysOf(row.site_id) :
              a.date < b.date /\ ~Exceeds(b.cost_leakage, a.cost_leakage)

\* C6: the dominant reason is the site's loss-mix row of largest share,
\* the earlier row of loss_mix_by_site winning a tie; a site without
\* loss-mix rows has a null reason, a 0.0 share and the generic action, and
\* a reason of ACTION_MAP gets its action.
C6_DominantDriver ==
    Classified =>
        \A row \in StatusRows :
            LET idx == MixIndexOf(row.site_id)
                mix == kpi.loss_mix_by_site
            IN  IF idx = {}
                THEN /\ row.dominant_loss_reason = NullReason
                     /\ row.dominant_loss_share = Rat(0, 10000)
                     /\ row.recommended_action = InsufficientAction
                ELSE /\ \E k \in idx :
                        /\ row.dominant_loss_reason = mix[k].loss_reason
                        /\ row.dominant_loss_share = mix[k].disposed_share
                        /\ \A j \in idx \ {k} :
                            \/ Exceeds(mix[k].disposed_share,
                                       mix[j].disposed_share)
                            \/ /\ mix[k].disposed_share = mix[j].disposed_share
                               /\ k < j
                     /\ row.dominant_loss_reason \in DOMAIN ACTION_MAP =>
                          row.recommended_action
                              = ACTION_MAP[row.dominant_loss_reason]
                     /\ row.dominant_loss_reason \notin DOMAIN ACTION_MAP =>
                          row.recommended_action = DefineAction

\* A site whose two largest shares tie, and a site with no loss-mix row.
C6_Witness ==
    /\ Classified
    /\ \E row \in StatusRows :
        \E k, j \in MixIndexOf(row.site_id) :
            /\ k < j
            /\ kpi.loss_mix_by_site[k].disposed_share
                  = kpi.loss_mix_by_site[j].disposed_share
            /\ kpi.loss_mix_by_site[k].disposed_units > 0
            /\ row.dominant_loss_reason = kpi.loss_mix_by_site[k].loss_reason
    /\ \E row \in StatusRows : MixIndexOf(row.site_id) = {}

MixOf(s) == SelectSeq(kpi.loss_mix_by_site, LAMBDA m : m.site_id = s)

\* The sum of a site's shares, in 1/10000ths.
ShareSum(s) == SumSeq([i \in 1..Len(MixOf(s)) |-> MixOf(s)[i].disposed_share[1]])

MixSites == {m.site_id : m \in Range(kpi.loss_mix_by_site)}

SiteDisposedInMix(s) == SumCol(MixOf(s), "disposed_units")

Abs(x) == IF x < 0 THEN -x ELSE x

\* C7: the shares of a site with disposed units sum to 1.0 within 0.00005
\* per reason, each share being a number of 1/10000ths; the shares of a site
\* with no disposed units are all exactly 0.0.
C7_SharesSumToOne ==
    Computed =>
        \A s \in MixSites :
            /\ \A k \in MixIndexOf(s) :
                  kpi.loss_mix_by_site[k].disposed_share[2] = 10000
            /\ SiteDisposedInMix(s) > 0 =>
                  2 * Abs(ShareSum(s) - 10000) <= Cardinality(MixIndexOf(s))
            /\ SiteDisposedInMix(s) = 0 =>
                  \A k \in MixIndexOf(s) :
                      kpi.loss_mix_by_site[k].disposed_share = Rat(0, 10000)

\* Three reasons of one third each: the shares sum to 0.9999.
C7_Witness ==
    /\ Computed
    /\ \E s \in MixSites :
        /\ SiteDisposedInMix(s) > 0
        /\ ShareSum(s) # 10000
        /\ Cardinality(MixIndexOf(s)) = 3

IsExactZero(q) == q[1] = 0 /\ q[2] # 0

\* C8: no ratio of by_site_day or by_site is undefined, and a row whose
\* summed actual_units is 0 has both of its ratios exactly 0.0.
C8_ZeroDenominator ==
    Computed =>
        /\ \A r \in Range(kpi.by_site_day) :
              /\ ~IsNaN(r.loss_rate) /\ ~IsNaN(r.utilization_rate)
              /\ r.actual_units = 0 =>
                    IsExactZero(r.loss_rate) /\ IsExactZero(r.utilization_rate)
        /\ \A r \in Range(kpi.by_site) :
              /\ ~IsNaN(r.loss_rate_weighted)
              /\ ~IsNaN(r.utilization_rate_weighted)
              /\ r.actual_units = 0 =>
                    /\ IsExactZero(r.loss_rate_weighted)
                    /\ IsExactZero(r.utilization_rate_weighted)

\* A site-day and a site without activity, beside a site with activity.
C8_Witness ==
    /\ Computed
    /\ \E r \in Range(kpi.by_site_day) : r.actual_units = 0
    /\ \E r \in Range(kpi.by_site) : r.actual_units = 0
    /\ \E r \in Range(kpi.by_site) : r.actual_units > 0

\* The whole part of a cell: what the loader keeps of a count.
WholePart(c, n) == IF c >= 0 THEN c - 2 * n \in {0, 1} ELSE c - 2 * n \in {0, -1}

HeaderComplete == REQUIRED_COLS \subseteq file.columns

\* The input rows whose counts, as loaded, do not balance.
Violating ==
    {i \in 1..Len(file.rows) :
        \E u, d, a \in -2..2 :
            /\ WholePart(file.rows[i].usable_units, u)
            /\ WholePart(file.rows[i].disposed_units, d)
            /\ WholePart(file.rows[i].actual_units, a)
            /\ u + d # a}

RowsOfSite(rows, s) == SelectSeq(rows, LAMBDA r : r.site_id = s)

\* C10: a selected site whose rows all pass the dashboard's filter gets the
\* same status row from the filtered run as from the run on the whole file.
C10_SiteIndependence ==
    (pc = "ready" /\ view.ran) =>
        \A s \in view.selected :
            RowsOfSite(view.dff, s) = RowsOfSite(df, s) =>
                /\ \E r \in Range(view.status_f) : r.site_id = s
                /\ \A r \in Range(view.status_f) :
                      r.site_id = s => r \in Range(site_status)

\* Site 1 selected alone out of a file of two sites, with its rising flag set.
C10_Witness ==
    /\ pc = "ready"
    /\ view.ran
    /\ view.selected = {1}
    /\ RowsOfSite(df, 2) # <<>>
    /\ RowsOfSite(view.dff, 1) = RowsOfSite(df, 1)
    /\ \E r \in Range(view.status_f) :
          r.site_id = 1 /\ r.rising_cost_leakage_flag = 1

====
